---- MODULE Spec2Model ----
(***************************************************************************)
(* A model of the regex-driven lexer of src/src/lib.rs: LexerBuilder       *)
(* (push, build) and Lexer (init, tok, is_eof).                            *)
(*                                                                         *)
(* Strings are sequences of one-character strings; offsets are 0-based as  *)
(* in the source, so the character at offset p of t is t[p + 1].  Every    *)
(* character of the alphabet is one byte wide, so byte offsets and         *)
(* character offsets agree.                                                *)
(***************************************************************************)
EXTENDS Integers, Sequences, FiniteSets

\* Bounds of the model: the rules of an array a builder is initialised with,
\* the rules a builder is pushed up to, the characters of a buffer, and the
\* digit runs of a buffer of SpecRuns.
MaxArray == 3
MaxRules == 2
MaxLen == 3
MaxRuns == 2

\* i32::MAX, the largest value x.parse::<i32>() accepts.
I32Max == 2147483647

\* Body at the value of v: a local binding whose value is computed once.
Let(v, Body(_)) == CHOOSE r \in {Body(x) : x \in {v}} : TRUE

-----------------------------------------------------------------------------
(* Characters and character classes of the regex crate.                    *)

Digits == {"0", "1", "2", "3", "4", "5", "6", "7", "8", "9"}

\* The characters the buffers of Spec are made of.
Chars == {"1", " "}

InClass(c, cls) ==
    CASE cls = "digit" -> c \in Digits                      \* \d
      [] cls = "space" -> c = " "                           \* \s
      [] OTHER         -> FALSE

\* The remaining input &data[pos..].
Suffix(t, pos) == SubSeq(t, pos + 1, Len(t))

\* &data[from..to]
Slice(t, from, to) == SubSeq(t, from + 1, to)

-----------------------------------------------------------------------------
(* Regular expressions.  A parsed expression is a sequence of top-level    *)
(* alternatives, each a sequence of items [cls, rep]; cls "start" is the   *)
(* assertion ^, rep is "one", "plus" or "star" (the operators + and * ).   *)

Item(cls, rep) == [cls |-> cls, rep |-> rep]

StartText == Item("start", "one")

\* The patterns of the callers, as the regex crate parses them.
Parse(token) ==
    CASE token = "\\d+"      -> << <<Item("digit", "plus")>> >>
      [] token = "\\s*"      -> << <<Item("space", "star")>> >>
      [] token = "\\d\\d|\\d" -> << <<Item("digit", "one"), Item("digit", "one")>>,
                                  <<Item("digit", "one")>> >>

\* The patterns the regex crate accepts on their own.  "(" is a group that
\* is not closed and "*" a repetition operator with nothing to repeat.
ValidPatterns == {"\\d+", "\\s*", "\\d\\d|\\d"}

\* Whether Regex::new(String::from("^") + token) is Ok.  The ^ is prepended
\* to the text of the pattern: "^(" is still a group that is not closed,
\* but in "^*" the operator has the assertion to repeat.
Compiles(token) == token \in ValidPatterns \cup {"*"}

\* Regex::new(String::from("^") + token): the ^ is prepended to the text of
\* the pattern, and alternation binds weakest, so the assertion belongs to
\* the first top-level alternative only.
AnchoredRegex(token) ==
    IF token = "*" THEN << <<Item("start", "star")>> >>
    ELSE LET hir == Parse(token)
         IN  << <<StartText>> \o hir[1] >> \o Tail(hir)

\* Number of consecutive characters of class cls in t from offset p.
RunLen(t, p, cls) ==
    CHOOSE n \in 0..(Len(t) - p) :
        /\ \A k \in 1..n : InClass(t[p + k], cls)
        /\ p + n = Len(t) \/ ~InClass(t[p + n + 1], cls)

\* The most and the fewest characters an item takes where run characters
\* of its class follow.
MaxRep(item, run) == IF item.rep = "one" THEN (IF run > 0 THEN 1 ELSE 0) ELSE run
MinRep(item) == IF item.rep = "star" THEN 0 ELSE 1

\* End offset of the match of items[i..] at offset p of t, or -1.  A
\* repetition is greedy and backtracks: the longest count whose
\* continuation matches.
RECURSIVE MatchItems(_, _, _, _)
RECURSIVE TryRep(_, _, _, _, _)
MatchItems(items, i, t, p) ==
    IF i > Len(items) THEN p
    ELSE IF items[i].cls = "start"
         THEN IF p = 0 \/ items[i].rep = "star"
              THEN MatchItems(items, i + 1, t, p) ELSE -1
         ELSE Let(MaxRep(items[i], RunLen(t, p, items[i].cls)),
                  LAMBDA hi : TryRep(items, i, t, p, hi))

TryRep(items, i, t, p, k) ==
    IF k < MinRep(items[i]) THEN -1
    ELSE Let(MatchItems(items, i + 1, t, p + k),
             LAMBDA r : IF r # -1 THEN r ELSE TryRep(items, i, t, p, k - 1))

\* End offset of the first alternative (from b on) matching at offset s, or -1.
RECURSIVE MatchAlt(_, _, _, _)
MatchAlt(re, b, t, s) ==
    IF b > Len(re) THEN -1
    ELSE Let(MatchItems(re[b], 1, t, s),
             LAMBDA e : IF e # -1 THEN e ELSE MatchAlt(re, b + 1, t, s))

\* Regex::find: the leftmost match, [start, end], or end = -1 when there
\* is none.
Find(re, t) ==
    IF \E s \in 0..Len(t) : MatchAlt(re, 1, t, s) # -1
    THEN Let(CHOOSE s \in 0..Len(t) : /\ MatchAlt(re, 1, t, s) # -1
                                      /\ \A u \in 0..(s - 1) : MatchAlt(re, 1, t, u) = -1,
             LAMBDA s : [start |-> s, end |-> MatchAlt(re, 1, t, s)])
    ELSE [start |-> -1, end |-> -1]

\* RegexSet::matches(t).into_iter().collect(): the ids (0-based) of the
\* expressions that match somewhere in t, in ascending order.
SetMatches(set, t) ==
    SelectSeq([i \in 1..Len(set) |-> i - 1], LAMBDA m : Find(set[m + 1], t).end # -1)

-----------------------------------------------------------------------------
(* Tokens and conversion functions.  A value returned to the caller is a   *)
(* record [kind, type, int, str]: kind is "Some", "None", "Panic" (the     *)
(* call unwound), "Unit", "True" or "False".                               *)

Value(kind, type, int, str) == [kind |-> kind, type |-> type, int |-> int, str |-> str]

Unit == Value("Unit", "-", 0, << >>)
None == Value("None", "-", 0, << >>)
Panic == Value("Panic", "-", 0, << >>)
Bool(b) == Value(IF b THEN "True" ELSE "False", "-", 0, << >>)

\* The value of a digit.
DigitVal(c) ==
    CASE c = "0" -> 0 [] c = "1" -> 1 [] c = "2" -> 2 [] c = "3" -> 3 [] c = "4" -> 4
      [] c = "5" -> 5 [] c = "6" -> 6 [] c = "7" -> 7 [] c = "8" -> 8 [] c = "9" -> 9

\* x.parse::<i32>() from the k-th character on, acc the value so far:
\* [ok, val].  A character that is no digit is an error, and so is a
\* value above i32::MAX (the checked multiplication and addition).
RECURSIVE ParseFrom(_, _, _)
ParseFrom(x, k, acc) ==
    IF k > Len(x) THEN [ok |-> TRUE, val |-> acc]
    ELSE IF x[k] \notin Digits THEN [ok |-> FALSE, val |-> 0]
    ELSE IF acc > (I32Max - DigitVal(x[k])) \div 10 THEN [ok |-> FALSE, val |-> 0]
    ELSE Let(10 * acc + DigitVal(x[k]), LAMBDA next : ParseFrom(x, k + 1, next))

\* An empty string is an error too.
ParseI32(x) == IF x = << >> THEN [ok |-> FALSE, val |-> 0] ELSE ParseFrom(x, 1, 0)

\* The conversion functions of the callers: action(x), wrapped in Some, or
\* Panic when the function panics (the unwrap of a failed parse).
Actions == {"TokenInt", "TokenString"}

Apply(action, x) ==
    CASE action = "TokenInt" ->
             Let(ParseI32(x),
                 LAMBDA v : IF v.ok THEN Value("Some", "TokenInt", v.val, << >>) ELSE Panic)
      [] action = "TokenString" -> Value("Some", "TokenString", 0, x)

LexAction(token, action) == [token |-> token, action |-> action]

\* The rules of the callers.
Rules ==
    { LexAction("\\d+", "TokenInt"),
      LexAction("\\s*", "TokenString"),
      LexAction("\\d\\d|\\d", "TokenString") }

-----------------------------------------------------------------------------
(* The state.                                                              *)

VARIABLES
    builder,     \* LexerBuilder.actions
    built,       \* whether build has returned a Lexer
    lexer,       \* the Lexer: regex_set, regexes, actions, data, curr_pos
    op,          \* the last operation called
    ret,         \* what it returned
    skip_ws,     \* tok: its argument
    entry_pos,   \* init, tok: curr_pos when it was called
    ws_pos,      \* tok: curr_pos after the whitespace step (line 88)
    longest_id,  \* tok: the rule whose action was called, -1 if none was
    fresh,       \* a second Lexer, built anew at each init
    fresh_ret,   \* what the last operation returned on it
    arg,         \* tok: the &str the action was called with (line 108)
    consumed     \* what the tok calls since init skipped and turned into tokens

vars == <<builder, built, lexer, op, ret, skip_ws, entry_pos, ws_pos, longest_id,
          fresh, fresh_ret, arg, consumed>>

Lexer(regex_set, regexes, actions, data, curr_pos) ==
    [regex_set |-> regex_set, regexes |-> regexes, actions |-> actions,
     data |-> data, curr_pos |-> curr_pos]

\* LexerBuilder::build
BuildLexer(acts) ==
    Lexer([i \in 1..Len(acts) |-> AnchoredRegex(acts[i].token)],
          [i \in 1..Len(acts) |-> AnchoredRegex(acts[i].token)],
          [i \in 1..Len(acts) |-> acts[i].action],
          << >>, 0)

\* init as it would be if it kept curr_pos.
InitLexer_KeepPos(lx, data) == [lx EXCEPT !.data = data]

\* Lexer::init
InitLexer(lx, data) == [lx EXCEPT !.data = data, !.curr_pos = 0]

\* static ref WS: Regex = Regex::new(r"^\s")
WS == << <<StartText, Item("space", "one")>> >>

\* Lines 82-86: the text of the match v of WS, empty if nothing is skipped.
Skipped(data, pos, skip) ==
    Let(Find(WS, Suffix(data, pos)),
        LAMBDA res : IF skip /\ res.end # -1
                     THEN Slice(Suffix(data, pos), res.start, res.end)
                     ELSE << >>)

\* The whitespace step as it would be without the test of skip_ws.
SkipWs_Always(data, pos, skip) ==
    Let(Find(WS, Suffix(data, pos)),
        LAMBDA res : IF res.end # -1 THEN res.end + pos ELSE pos)

\* The whitespace step as it would be with self.curr_pos = v.end().
SkipWs_NoBase(data, pos, skip) ==
    Let(Find(WS, Suffix(data, pos)),
        LAMBDA res : IF skip /\ res.end # -1 THEN res.end ELSE pos)

\* Lines 77-87: curr_pos after the whitespace step.
SkipWs(data, pos, skip) ==
    Let(Find(WS, Suffix(data, pos)),
        LAMBDA res : IF skip /\ res.end # -1 THEN res.end + pos ELSE pos)

\* Line 101 as it would be with start() for end().
MatchLength_Start(regexes, m, rest, pos) == Find(regexes[m + 1], rest).start + pos

\* Line 101 as it would be without + self.curr_pos.
MatchLength_NoBase(regexes, m, rest, pos) == Find(regexes[m + 1], rest).end

\* Line 101: where the match of regexes[m] ends in data.
MatchLength(regexes, m, rest, pos) == Find(regexes[m + 1], rest).end + pos

\* Lines 96-106: the loop over the matches, from the i-th on.
RECURSIVE LongestLoop(_, _, _, _, _, _, _)
LongestLoop(regexes, matches, i, rest, pos, longest, id) ==
    IF i > Len(matches) THEN [longest |-> longest, longest_id |-> id]
    ELSE Let(MatchLength(regexes, matches[i], rest, pos),
             LAMBDA length :
                 IF length > longest
                 THEN LongestLoop(regexes, matches, i + 1, rest, pos, length, matches[i])
                 ELSE LongestLoop(regexes, matches, i + 1, rest, pos, longest, id))

\* What tok yields: the Lexer afterwards, the value returned, curr_pos after
\* the whitespace step, the rule whose action was called (-1: none) and the
\* string it was called with.
Outcome(lx, cursor, value, pos, id, str) ==
    [lexer |-> [lx EXCEPT !.curr_pos = cursor], ret |-> value,
     ws_pos |-> pos, longest_id |-> id, arg |-> str]

\* Lines 108-110 as they would be with self.curr_pos = longest before the
\* call of the action.
Convert_AdvanceFirst(lx, pos, sel) ==
    IF ~(pos <= sel.longest /\ sel.longest <= Len(lx.data))
    THEN Outcome(lx, pos, Panic, pos, -1, << >>)
    ELSE Let(Slice(lx.data, pos, sel.longest),
             LAMBDA x : Outcome(lx, sel.longest, Apply(lx.actions[sel.longest_id + 1], x),
                                pos, sel.longest_id, x))

\* Lines 108-110 as they would be without self.curr_pos = longest.
Convert_NoAdvance(lx, pos, sel) ==
    IF ~(pos <= sel.longest /\ sel.longest <= Len(lx.data))
    THEN Outcome(lx, pos, Panic, pos, -1, << >>)
    ELSE Let(Slice(lx.data, pos, sel.longest),
             LAMBDA x : Outcome(lx, pos, Apply(lx.actions[sel.longest_id + 1], x),
                                pos, sel.longest_id, x))

\* Lines 108-110 as they would be with the action called on &data[..longest].
Convert_SliceFromStart(lx, pos, sel) ==
    IF ~(pos <= sel.longest /\ sel.longest <= Len(lx.data))
    THEN Outcome(lx, pos, Panic, pos, -1, << >>)
    ELSE Let(Slice(lx.data, 0, sel.longest),
             LAMBDA x : Let(Apply(lx.actions[sel.longest_id + 1], x),
                            LAMBDA token :
                                Outcome(lx, IF token = Panic THEN pos ELSE sel.longest,
                                        token, pos, sel.longest_id, x)))

\* Lines 108-110: the action of the selected rule on &data[curr_pos..longest]
\* (a slice that ends before it starts, or after the data, panics), then
\* the assignment of curr_pos, which a panic of the action does not reach.
Convert(lx, pos, sel) ==
    IF ~(pos <= sel.longest /\ sel.longest <= Len(lx.data))
    THEN Outcome(lx, pos, Panic, pos, -1, << >>)
    ELSE Let(Slice(lx.data, pos, sel.longest),
             LAMBDA x : Let(Apply(lx.actions[sel.longest_id + 1], x),
                            LAMBDA token :
                                Outcome(lx, IF token = Panic THEN pos ELSE sel.longest,
                                        token, pos, sel.longest_id, x)))

\* Lines 90-106 as they would be without the return on lines 92-94: the
\* index actions[0] of an empty rule list panics.
Select_NoEarlyReturn(lx, pos, matches) ==
    Let(LongestLoop(lx.regexes, matches, 1, Suffix(lx.data, pos), pos, 0, 0),
        LAMBDA sel : IF sel.longest_id >= Len(lx.actions)
                     THEN Outcome(lx, pos, Panic, pos, -1, << >>)
                     ELSE Convert(lx, pos, sel))

\* Lines 90-106: the rules that match, None when there is none, else the
\* longest match.
Select(lx, pos, matches) ==
    IF matches = << >>
    THEN Outcome(lx, pos, None, pos, -1, << >>)
    ELSE Let(LongestLoop(lx.regexes, matches, 1, Suffix(lx.data, pos), pos, 0, 0),
             LAMBDA sel : Convert(lx, pos, sel))

\* Lines 88-90: the matching at curr_pos.
TokAt(lx, pos) ==
    Let(SetMatches(lx.regex_set, Suffix(lx.data, pos)),
        LAMBDA matches : Select(lx, pos, matches))

\* Lexer::tok on lx.
TokStep(lx, skip) ==
    Let(SkipWs(lx.data, lx.curr_pos, skip), LAMBDA pos : TokAt(lx, pos))

\* is_eof as it would be if it compared with the offset of the last character.
IsEof_LastChar(lx) == lx.curr_pos = Len(lx.data) - 1

\* Lexer::is_eof
IsEof(lx) == lx.curr_pos = Len(lx.data)

-----------------------------------------------------------------------------
(* The operations.                                                         *)

\* The strings init is called with.
Buffers == UNION {[1..n -> Chars] : n \in 0..MaxLen}

\* The arrays of rules a LexerBuilder is initialised with; LexerBuilder::new
\* is the empty one.
Arrays == UNION {[1..n -> Rules] : n \in 0..MaxArray}

NoCall == /\ skip_ws' = FALSE
          /\ entry_pos' = 0
          /\ ws_pos' = 0
          /\ longest_id' = -1
          /\ arg' = << >>

\* LexerBuilder { actions }, LexerBuilder::new
Init ==
    /\ builder \in Arrays
    /\ built = FALSE
    /\ lexer = BuildLexer(<< >>)
    /\ fresh = BuildLexer(<< >>)
    /\ op = "new"
    /\ ret = Unit
    /\ fresh_ret = Unit
    /\ skip_ws = FALSE
    /\ entry_pos = 0
    /\ ws_pos = 0
    /\ longest_id = -1
    /\ arg = << >>
    /\ consumed = << >>

\* push as it would be if the Lexer shared the rules of the builder.
push_Aliased(token, action) ==
    /\ Len(builder) < MaxRules
    /\ builder' = Append(builder, LexAction(token, action))
    /\ lexer' = [lexer EXCEPT !.regex_set = Append(@, AnchoredRegex(token)),
                              !.regexes = Append(@, AnchoredRegex(token)),
                              !.actions = Append(@, action)]
    /\ fresh' = lexer'
    /\ op' = "push"
    /\ ret' = Unit
    /\ fresh_ret' = Unit
    /\ NoCall
    /\ UNCHANGED <<built, consumed>>

push(token, action) ==
    /\ Len(builder) < MaxRules
    /\ builder' = Append(builder, LexAction(token, action))
    /\ op' = "push"
    /\ ret' = Unit
    /\ fresh_ret' = Unit
    /\ NoCall
    /\ UNCHANGED <<built, lexer, fresh, consumed>>

\* The unwrap of a pattern that does not compile panics, and no Lexer is
\* returned.
build ==
    /\ IF \A i \in 1..Len(builder) : Compiles(builder[i].token)
       THEN /\ built' = TRUE
            /\ lexer' = BuildLexer(builder)
            /\ fresh' = BuildLexer(builder)
            /\ ret' = Unit
            /\ fresh_ret' = Unit
            /\ consumed' = << >>
       ELSE /\ ret' = Panic
            /\ fresh_ret' = Panic
            /\ UNCHANGED <<built, lexer, fresh, consumed>>
    /\ op' = "build"
    /\ NoCall
    /\ UNCHANGED builder

\* The second Lexer is one newly built from the same rules.
init(data) ==
    /\ built
    /\ lexer' = InitLexer(lexer, data)
    /\ fresh' = InitLexer(Lexer(lexer.regex_set, lexer.regexes, lexer.actions, << >>, 0), data)
    /\ op' = "init"
    /\ ret' = Unit
    /\ fresh_ret' = Unit
    /\ skip_ws' = FALSE
    /\ entry_pos' = lexer.curr_pos
    /\ ws_pos' = 0
    /\ longest_id' = -1
    /\ arg' = << >>
    /\ consumed' = << >>
    /\ UNCHANGED <<builder, built>>

tok(skip) ==
    /\ built
    /\ \E r \in {TokStep(lexer, skip)} :
           /\ lexer' = r.lexer
           /\ ret' = r.ret
           /\ ws_pos' = r.ws_pos
           /\ longest_id' = r.longest_id
           /\ arg' = r.arg
           /\ consumed' = consumed \o Skipped(lexer.data, lexer.curr_pos, skip)
                                   \o (IF r.ret.kind = "Some" THEN r.arg ELSE << >>)
    /\ \E f \in {TokStep(fresh, skip)} :
           /\ fresh' = f.lexer
           /\ fresh_ret' = f.ret
    /\ op' = "tok"
    /\ skip_ws' = skip
    /\ entry_pos' = lexer.curr_pos
    /\ UNCHANGED <<builder, built>>

is_eof ==
    /\ built
    /\ ret' = Bool(IsEof(lexer))
    /\ fresh_ret' = Bool(IsEof(fresh))
    /\ op' = "is_eof"
    /\ NoCall
    /\ UNCHANGED <<builder, built, lexer, fresh, consumed>>

Next ==
    \/ \E r \in Rules : push(r.token, r.action)
    \/ build
    \/ \E data \in Buffers : init(data)
    \/ \E skip \in BOOLEAN : tok(skip)
    \/ is_eof

Spec == Init /\ [][Next]_vars

-----------------------------------------------------------------------------
(* The lexer of the tests: the single rule \d+ -> TokenInt, on buffers of  *)
(* digit runs separated by one space each, read with tok(true).            *)

I32MaxRun == <<"2", "1", "4", "7", "4", "8", "3", "6", "4", "7">>
I32OverRun == <<"2", "1", "4", "7", "4", "8", "3", "6", "4", "8">>

RunSet == {<<"4", "2">>, <<"5", "2">>, I32MaxRun, I32OverRun}

\* The first n runs of f, joined by one space each.
RECURSIVE Join(_, _)
Join(f, n) == IF n = 1 THEN f[1] ELSE Join(f, n - 1) \o <<" ">> \o f[n]

RunBuffers == UNION {{Join(f, n) : f \in [1..n -> RunSet]} : n \in 1..MaxRuns}

IntRule == LexAction("\\d+", "TokenInt")

InitRuns ==
    /\ builder = <<IntRule>>
    /\ built = FALSE
    /\ lexer = BuildLexer(<< >>)
    /\ fresh = BuildLexer(<< >>)
    /\ op = "new"
    /\ ret = Unit
    /\ fresh_ret = Unit
    /\ skip_ws = FALSE
    /\ entry_pos = 0
    /\ ws_pos = 0
    /\ longest_id = -1
    /\ arg = << >>
    /\ consumed = << >>

NextRuns ==
    \/ build
    \/ \E data \in RunBuffers : init(data)
    \/ tok(TRUE)
    \/ is_eof

SpecRuns == InitRuns /\ [][NextRuns]_vars

-----------------------------------------------------------------------------
(* Builders with patterns the regex crate rejects, pushed one by one on a  *)
(* new LexerBuilder.                                                       *)

BuildRules ==
    { LexAction("\\d+", "TokenInt"),
      LexAction("(", "TokenString"),
      LexAction("*", "TokenString") }

BuildBuffers == {<< >>, <<"1">>, <<" ", "1">>}

InitBuild ==
    /\ builder = << >>
    /\ built = FALSE
    /\ lexer = BuildLexer(<< >>)
    /\ fresh = BuildLexer(<< >>)
    /\ op = "new"
    /\ ret = Unit
    /\ fresh_ret = Unit
    /\ skip_ws = FALSE
    /\ entry_pos = 0
    /\ ws_pos = 0
    /\ longest_id = -1
    /\ arg = << >>
    /\ consumed = << >>

NextBuild ==
    \/ \E r \in BuildRules : push(r.token, r.action)
    \/ build
    \/ \E data \in BuildBuffers : init(data)
    \/ \E skip \in BOOLEAN : tok(skip)
    \/ is_eof

SpecBuild == InitBuild /\ [][NextBuild]_vars

-----------------------------------------------------------------------------
(* A caller that builds a Lexer, gives it a buffer and then asks for       *)
(* tokens until is_eof is true or tok returns no token.  The program is    *)
(* sequential: the caller takes its next step whenever it has one.         *)

LoopArrays == UNION {[1..n -> Rules] : n \in 0..MaxRules}

InitLoop ==
    /\ builder \in LoopArrays
    /\ built = FALSE
    /\ lexer = BuildLexer(<< >>)
    /\ fresh = BuildLexer(<< >>)
    /\ op = "new"
    /\ ret = Unit
    /\ fresh_ret = Unit
    /\ skip_ws = FALSE
    /\ entry_pos = 0
    /\ ws_pos = 0
    /\ longest_id = -1
    /\ arg = << >>
    /\ consumed = << >>

LoopBuild == op = "new" /\ build

LoopInit == op = "build" /\ \E data \in Buffers : init(data)

LoopIsEof == (op = "init" \/ (op = "tok" /\ ret.kind = "Some")) /\ is_eof

LoopTok == op = "is_eof" /\ ret = Bool(FALSE) /\ \E skip \in BOOLEAN : tok(skip)

NextLoop ==
    \/ LoopBuild
    \/ LoopInit
    \/ LoopIsEof
    \/ LoopTok

SpecLoop == InitLoop /\ [][NextLoop]_vars /\ WF_vars(NextLoop)

-----------------------------------------------------------------------------
(* What the properties speak of.  The pattern of a rule is its expression  *)
(* without the prefixed ^; a rule matches at an offset when its pattern    *)
(* has a match that starts exactly there.                                  *)

PatternOf(re) == <<Tail(re[1])>> \o Tail(re)

RuleIds == 0..(Len(lexer.regexes) - 1)

\* Where the match of rule m that starts at ws_pos ends, or -1.
EndAt(m) == MatchAlt(PatternOf(lexer.regexes[m + 1]), 1, lexer.data, ws_pos)

\* The rules that match at ws_pos.
Matching == {m \in RuleIds : EndAt(m) # -1}

\* The rule of the longest match at ws_pos, the first of them on a tie.
Best ==
    CHOOSE m \in Matching :
        \A n \in Matching : EndAt(n) < EndAt(m) \/ (EndAt(n) = EndAt(m) /\ m <= n)

IsSpace(t, p) == p < Len(t) /\ t[p + 1] = " "

\* curr_pos after one whitespace character at entry_pos is skipped, if
\* skip_ws asks for it and there is one.
ExpectedWs == IF skip_ws /\ IsSpace(lexer.data, entry_pos) THEN entry_pos + 1 ELSE entry_pos

Scanning == 0 < lexer.curr_pos /\ lexer.curr_pos < Len(lexer.data)
Exhausted == lexer.curr_pos = Len(lexer.data)

-----------------------------------------------------------------------------
(* C1: where two or more rules match at the cursor, tok returns what the   *)
(* action of the rule with the longest match yields on that match, the     *)
(* first such rule on a tie: at every cursor, the empty match included.    *)
C1_LongestMatchWins ==
    (op = "tok" /\ Cardinality(Matching) >= 2)
        => ret = Apply(lexer.actions[Best + 1], Slice(lexer.data, ws_pos, EndAt(Best)))

(* C2: curr_pos stays within 0..len(data), and no tok call, whatever its   *)
(* argument and its result, moves it backwards: not in the whitespace      *)
(* step, not in the match.                                                 *)
C2_CursorMonotonic ==
    /\ 0 <= lexer.curr_pos /\ lexer.curr_pos <= Len(lexer.data)
    /\ op = "tok" => entry_pos <= ws_pos /\ ws_pos <= lexer.curr_pos

C2_Witness == op = "tok" /\ entry_pos < ws_pos /\ ws_pos < lexer.curr_pos

(* C3: when no rule matches at the cursor after the whitespace step, tok   *)
(* returns None, calls no action, and leaves curr_pos after the one        *)
(* whitespace character it skipped, or where it was if it skipped none.    *)
C3_NoMatchNoToken ==
    (op = "tok" /\ Matching = {})
        => /\ ret = None
           /\ longest_id = -1
           /\ ws_pos = ExpectedWs
           /\ lexer.curr_pos = ws_pos

(* C4: tok skips exactly one whitespace character when skip_ws is true     *)
(* and one is at the cursor, and none otherwise; so with two whitespace    *)
(* characters at the cursor and no rule matching at the second, tok(true)  *)
(* returns None.                                                           *)
C4_OneWhitespaceSkipped ==
    op = "tok"
        => /\ ws_pos = ExpectedWs
           /\ ( /\ skip_ws
                /\ IsSpace(lexer.data, entry_pos)
                /\ IsSpace(lexer.data, entry_pos + 1)
                /\ Matching = {} ) => ret = None

(* C5: is_eof returns true exactly when curr_pos = len(data): false right  *)
(* after init on a buffer that is not empty, true once the buffer is       *)
(* consumed.                                                               *)
C5_EofIffAtEnd ==
    op = "is_eof"
        => /\ ret \in {Bool(TRUE), Bool(FALSE)}
           /\ ret = Bool(TRUE) <=> lexer.curr_pos = Len(lexer.data)
           /\ (lexer.curr_pos = 0 /\ lexer.data # << >>) => ret = Bool(FALSE)

C5_Witness == op = "is_eof" /\ ret = Bool(TRUE) /\ lexer.data # << >>

(* C6: after init, whatever the Lexer went through before, the Lexer and   *)
(* one newly built from the same rules and given the same init agree at    *)
(* every later call: the same value returned, the same state.              *)
C6_InitLikeFresh == built => (lexer = fresh /\ ret = fresh_ret)

C6_Witness == op = "init" /\ entry_pos > 0 /\ lexer.curr_pos = 0 /\ lexer.data # << >>

(* C9: a rule counts as matching in tok only if its match starts exactly   *)
(* at the cursor after the whitespace step, whatever the form of its       *)
(* pattern.                                                                *)
C9_MatchesAtCursorOnly ==
    op = "tok"
        => \A m \in RuleIds :
               Find(lexer.regexes[m + 1], Suffix(lexer.data, ws_pos)).end # -1
                   => m \in Matching

\* The match of the rule whose action tok called is not empty.
CalledMatchNotEmpty ==
    /\ longest_id # -1
    /\ Find(lexer.regexes[longest_id + 1], Suffix(lexer.data, ws_pos)).end > 0

(* C10, as claimed: whenever tok returns a token the Lexer is then         *)
(* Scanning or Exhausted, never at cursor 0 of a buffer that is not empty. *)
C10_SuccessLeavesReady ==
    (op = "tok" /\ ret.kind = "Some") => (Scanning \/ Exhausted)

(* C10, amended: whenever tok returns a token after skipping a whitespace  *)
(* character or for a match that is not empty, the Lexer is then Scanning  *)
(* or Exhausted; when it returns a token for an empty match and skipped    *)
(* nothing, curr_pos is where it was.                                      *)
C10_SuccessAdvances ==
    (op = "tok" /\ ret.kind = "Some")
        => IF entry_pos < ws_pos \/ CalledMatchNotEmpty
           THEN entry_pos < lexer.curr_pos /\ (Scanning \/ Exhausted)
           ELSE lexer.curr_pos = entry_pos

C10_Witness ==
    op = "tok" /\ ret.kind = "Some" /\ lexer.curr_pos = 0 /\ lexer.data # << >>

-----------------------------------------------------------------------------
(* The digit runs of a buffer.                                             *)

IsRunBuffer(t) ==
    /\ t # << >>
    /\ \A k \in 1..Len(t) : t[k] \in Digits \cup {" "}
    /\ t[1] \in Digits /\ t[Len(t)] \in Digits
    /\ \A k \in 1..(Len(t) - 1) : ~(t[k] = " " /\ t[k + 1] = " ")

\* The offsets at which a run of lexer.data ends.
RunEnds ==
    {e \in 1..Len(lexer.data) :
        /\ lexer.data[e] \in Digits
        /\ e = Len(lexer.data) \/ lexer.data[e + 1] = " "}

NRuns == Cardinality(RunEnds)

RunEnd(i) == CHOOSE e \in RunEnds : Cardinality({d \in RunEnds : d < e}) = i - 1

\* Where curr_pos is when the i-th call is made, and where the i-th run starts.
CallEntry(i) == IF i = 1 THEN 0 ELSE RunEnd(i - 1)
RunStart(i) == IF i = 1 THEN 0 ELSE RunEnd(i - 1) + 1
Run(i) == Slice(lexer.data, RunStart(i), RunEnd(i))

\* n is the number the first k digits of x denote.
RECURSIVE ValueIs(_, _, _)
ValueIs(x, k, n) ==
    IF k = 0 THEN n = 0
    ELSE n % 10 = DigitVal(x[k]) /\ ValueIs(x, k - 1, n \div 10)

\* x, a string of digits, denotes at most i32::MAX.
RECURSIVE LeadingZeros(_)
LeadingZeros(x) == IF x # << >> /\ x[1] = "0" THEN 1 + LeadingZeros(Tail(x)) ELSE 0

FitsI32(x) ==
    LET y == SubSeq(x, LeadingZeros(x) + 1, Len(x))
    IN  \/ Len(y) < Len(I32MaxRun)
        \/ /\ Len(y) = Len(I32MaxRun)
           /\ \A k \in 1..Len(y) :
                  (\A j \in 1..(k - 1) : y[j] = I32MaxRun[j])
                      => DigitVal(y[k]) <= DigitVal(I32MaxRun[k])

\* The i-th call returned the Int of the i-th run and consumed that run.
ReturnedRun(i) ==
    /\ ret.kind = "Some"
    /\ ret.type = "TokenInt"
    /\ ValueIs(Run(i), Len(Run(i)), ret.int)
    /\ lexer.curr_pos = RunEnd(i)
    /\ i = NRuns => IsEof(lexer)

(* C8, as claimed: with the single rule \d+ -> Int and a buffer of n digit *)
(* runs separated by one whitespace character each, the i-th of n          *)
(* tok(true) calls returns the Int of the i-th run, and is_eof holds after *)
(* the n-th.                                                               *)
C8_RunsInOrder ==
    (op = "tok" /\ skip_ws /\ IsRunBuffer(lexer.data))
        => \A i \in 1..NRuns : entry_pos = CallEntry(i) => ReturnedRun(i)

(* C8, amended: the same, for digit runs that each denote at most          *)
(* 2147483647.                                                             *)
C8_RunsInOrderI32 ==
    (op = "tok" /\ skip_ws /\ IsRunBuffer(lexer.data)
                /\ \A j \in 1..NRuns : FitsI32(Run(j)))
        => \A i \in 1..NRuns : entry_pos = CallEntry(i) => ReturnedRun(i)

C8_Witness ==
    /\ op = "tok" /\ skip_ws /\ IsRunBuffer(lexer.data)
    /\ \A j \in 1..NRuns : FitsI32(Run(j))
    /\ NRuns >= 2
    /\ entry_pos = CallEntry(NRuns)
    /\ ReturnedRun(NRuns)

-----------------------------------------------------------------------------
\* The string the action of the called rule was given, and whether the
\* action panics on it.
CalledSlice ==
    Slice(lexer.data, ws_pos,
          Find(lexer.regexes[longest_id + 1], Suffix(lexer.data, ws_pos)).end + ws_pos)

CalledActionPanics ==
    /\ longest_id # -1
    /\ Apply(lexer.actions[longest_id + 1], CalledSlice) = Panic

(* C11: when the action tok calls panics, the panic reaches the caller of  *)
(* tok, and curr_pos is where the whitespace step left it, not past the    *)
(* match; tok panics in no other case.                                     *)
C11_PanicKeepsCursor ==
    op = "tok"
        => /\ CalledActionPanics => (ret = Panic /\ lexer.curr_pos = ws_pos)
           /\ ret = Panic => (CalledActionPanics /\ ws_pos = ExpectedWs)

C11_Witness ==
    op = "tok" /\ ret = Panic /\ entry_pos < ws_pos /\ lexer.curr_pos = ws_pos

-----------------------------------------------------------------------------
\* The rules whose pattern matches the empty string.
MatchingEmpty ==
    {m \in RuleIds : MatchAlt(PatternOf(lexer.regexes[m + 1]), 1, << >>, 0) # -1}

(* C12, as claimed: for every rule list, on the empty buffer is_eof is     *)
(* true, and tok, whatever its argument, returns None and leaves curr_pos  *)
(* at 0.                                                                   *)
C12_EmptyInput ==
    (built /\ lexer.data = << >>)
        => /\ IsEof(lexer)
           /\ op = "is_eof" => ret = Bool(TRUE)
           /\ op = "tok" => (ret = None /\ lexer.curr_pos = 0)

(* C12, amended: for every rule list, on the empty buffer is_eof is true   *)
(* and tok, whatever its argument, leaves curr_pos at 0; tok returns None  *)
(* when no rule has a pattern that matches the empty string.               *)
C12_EmptyInputNoEmptyRule ==
    (built /\ lexer.data = << >>)
        => /\ IsEof(lexer)
           /\ op = "is_eof" => ret = Bool(TRUE)
           /\ op = "tok" => lexer.curr_pos = 0
           /\ (op = "tok" /\ MatchingEmpty = {}) => (ret = None /\ longest_id = -1)

C12_Witness ==
    /\ op = "tok" /\ skip_ws /\ lexer.data = << >>
    /\ Len(lexer.regexes) >= 2 /\ MatchingEmpty = {}
    /\ ret = None

-----------------------------------------------------------------------------
\* The state of the state machine a Lexer with the buffer of lexer is in
\* at cursor pos.
StateAt(pos) ==
    IF pos = 0 THEN "Ready"
    ELSE IF pos < Len(lexer.data) THEN "Scanning" ELSE "Exhausted"

\* tok found no rule to match and returned on line 93.
NoRuleMatched == op = "tok" /\ ret = None /\ longest_id = -1

-----------------------------------------------------------------------------
\* The builder holds a rule whose pattern is not a valid regular expression.
HasInvalidPattern == \E i \in 1..Len(builder) : builder[i].token \notin ValidPatterns

(* C14: build panics exactly when a rule of the builder has a pattern that *)
(* is not a valid regular expression; otherwise it returns a Lexer with    *)
(* the rules of the builder, an empty buffer and curr_pos 0, of which      *)
(* is_eof is true; and init, tok and is_eof panic for no other reason than *)
(* a panic of the action tok calls.                                        *)
C14_BuildFailsOnInvalid ==
    /\ op = "build"
           => /\ ret = Panic <=> HasInvalidPattern
              /\ ret # Panic
                     => /\ built
                        /\ Len(lexer.regexes) = Len(builder)
                        /\ lexer.data = << >> /\ lexer.curr_pos = 0
                        /\ IsEof(lexer)
    /\ (op \in {"init", "tok", "is_eof"} /\ ret = Panic) => CalledActionPanics

-----------------------------------------------------------------------------
\* What the action of rule m yields on the match of rule m at ws_pos.
TokenOf(m) == Apply(lexer.actions[m + 1], Slice(lexer.data, ws_pos, EndAt(m)))

(* C15: whenever tok returns a token, the action it called is that of a    *)
(* rule that matches at the cursor after the whitespace step, and was      *)
(* given exactly the match of that rule; and when exactly one rule matches *)
(* there, whatever its index and the length of its match, tok returns what *)
(* the action of that rule yields on its match.                            *)
C15_TokenOfMatchingRule ==
    op = "tok"
        => /\ ret.kind = "Some"
                  => /\ longest_id \in Matching
                     /\ ret = TokenOf(longest_id)
                     /\ lexer.curr_pos = EndAt(longest_id)
           /\ \A m \in RuleIds : Matching = {m} => (longest_id = m /\ ret = TokenOf(m))

-----------------------------------------------------------------------------
-----------------------------------------------------------------------------
\* The caller has seen is_eof true or tok return no token, or its call of
\* tok has panicked: the run of successful calls is over.
Observed ==
    \/ op = "is_eof" /\ ret = Bool(TRUE)
    \/ op = "tok" /\ ret \in {None, Panic}

(* C17, as claimed: for every rule list and every buffer, a caller that    *)
(* calls tok again and again after init in the end sees is_eof true or tok *)
(* return no token: there is no infinite run of successful tok calls in    *)
(* which curr_pos never reaches the length of the buffer.                  *)
C17_CallerEnds == <>Observed

(* C17, amended: the same, for every rule list in which no rule has a      *)
(* pattern that matches the empty string.                                  *)
C17_CallerEndsNoEmptyRule == (op = "init" /\ MatchingEmpty = {}) ~> Observed

C17_Witness ==
    /\ op = "is_eof" /\ ret = Bool(TRUE)
    /\ lexer.data = <<"1", " ", "1">> /\ consumed = lexer.data
    /\ Len(lexer.regexes) >= 1 /\ MatchingEmpty = {}

-----------------------------------------------------------------------------
\* The compiled rules of a Lexer.
RulesOf(lx) == <<lx.regex_set, lx.regexes, lx.actions>>

(* C18: build gives the Lexer the rules of the builder in the order they   *)
(* were pushed; init, tok, is_eof and a push on the builder after build    *)
(* leave the rules of the Lexer as they are; tok, is_eof and push leave    *)
(* its buffer as it is; and is_eof changes nothing of the Lexer or the     *)
(* builder.                                                                *)
C18_RulesAndBufferFrame ==
    [][ /\ (op' = "build" /\ ret' = Unit)
               => /\ builder' = builder
                  /\ lexer'.actions = [i \in 1..Len(builder) |-> builder[i].action]
                  /\ lexer'.regexes = [i \in 1..Len(builder) |-> AnchoredRegex(builder[i].token)]
                  /\ lexer'.regex_set = lexer'.regexes
        /\ op' \in {"init", "tok", "is_eof", "push"} => RulesOf(lexer') = RulesOf(lexer)
        /\ op' \in {"tok", "is_eof", "push"} => lexer'.data = lexer.data
        /\ op' \in {"init", "tok", "is_eof"} => builder' = builder
        /\ op' = "is_eof" => (lexer' = lexer /\ consumed' = consumed)
      ]_vars

C18_Witness ==
    /\ op = "push" /\ built
    /\ Len(builder) > Len(lexer.regexes) /\ Len(lexer.regexes) >= 1
    /\ lexer.data # << >> /\ lexer.curr_pos > 0

====
